---- MODULE Spec2Model ----
(***************************************************************************)
(* A model of the to-do application: the FastAPI backend of                *)
(* src/backend/main.py (the TodoItem table in SQLite, the five /todos      *)
(* handlers and POST /translate) and the Streamlit session of              *)
(* src/frontend/app.py (its buttons, its form and the session's            *)
(* translations map).                                                      *)
(*                                                                         *)
(* Every handler is `async def` and never awaits, so a request runs from   *)
(* its first line to its response without another request of the same      *)
(* process in between: one action is one whole request.  Requests of       *)
(* different clients interleave as whole requests.                         *)
(*                                                                         *)
(* An Optional value is a sequence of length at most one: None is << >>    *)
(* and a value v is << v >>.                                               *)
(***************************************************************************)
EXTENDS Integers, Sequences, FiniteSets, TLC

\* ------------------------------------------------------------------ bounds

\* The largest rowid the model lets the store assign.
MaxTodos == 1

\* ------------------------------------------------------------------ values

None == << >>

Some(v) == << v >>

\* Python truthiness of an Optional[str] (app.py: `if description:`).
Truthy(o) == o # None /\ o # Some("")

\* The clients that send requests to the one backend.
Clients == {"c1", "c2"}

\* The columns of the table besides the primary key.
Fields == {"title", "description", "completed", "priority", "due_date"}

\* The fields of the creation schema.
CreateFields == {"title", "description", "priority", "due_date"}

\* A JSON body is a function from the keys it supplies to their values.
Restrict(b, S) == [f \in S |-> b[f]]

\* Two complete bodies: one sets every field, the other empties or nulls it.
AllSet ==
    [title |-> Some("Buy milk"), description |-> Some("2 litres"),
     completed |-> Some(TRUE), priority |-> Some("High"),
     due_date |-> Some("2025-01-01")]

AllCleared ==
    [title |-> Some(""), description |-> None, completed |-> Some(FALSE),
     priority |-> None, due_date |-> None]

\* The key sets of the bodies: none, each single field, and all of them.
KeySets(F) == {{}} \cup {{f} : f \in F} \cup {F}

\* The bodies sent to PUT /todos/{id}: over each key set and over the two
\* NOT NULL columns together, set or cleared, and a null for each of the
\* two.
UpdateBodies ==
    {Restrict(b, S) : b \in {AllSet, AllCleared},
                      S \in KeySets(Fields) \cup {{"title", "completed"}}}
        \cup {[title |-> None], [completed |-> None]}

\* The bodies sent to POST /todos: over each key set of the creation
\* fields, set or cleared, and a null title.
CreateBodies ==
    {Restrict(b, S) : b \in {AllSet, AllCleared}, S \in KeySets(CreateFields)}
        \cup {[title |-> None]}

NoBody == << >>

\* ------------------------------------------------------------------ state

VARIABLES
    db,            \* the todoitem table: rowid -> row
    gemini_model,  \* the module-level model client, None when unconfigured
    req,           \* the last request served; in a session event, the one
                   \* its button or form sent (the reruns' GET /todos are in http)
    resp,          \* its response
    upstream,      \* the prompts the last request sent to the generative model
    translations,  \* st.session_state.translations: id -> language -> text
    target_language, \* the sidebar's selected language
    ui,            \* the last event of the Streamlit session
    http,          \* the HTTP requests the session issued in its last event
    client,        \* the client that sent the last request
    issued,        \* every id a POST /todos has returned so far
    posted,        \* id -> the entity its POST returned, until it is written again
    GOOGLE_API_KEY, \* the credential in the environment at startup
    prevPut        \* the last PUT committed before the current request

vars == << db, gemini_model, req, resp, upstream, translations,
           target_language, ui, http, client, issued, posted,
           GOOGLE_API_KEY, prevPut >>

\* ---------------------------------------------------------------- the store

\* The rowid SQLite gives an INSERT that names none: the table's id column
\* is INTEGER PRIMARY KEY without AUTOINCREMENT, so it is one more than the
\* largest rowid now in the table.
NextRowid(table) ==
    IF DOMAIN table = {} THEN 1
    ELSE (CHOOSE m \in DOMAIN table : \A i \in DOMAIN table : i <= m) + 1

\* Mutant: title and completed declared Optional, so nullable columns.
NotNullOk_nullable(row) == TRUE

\* The columns declared without Optional are NOT NULL: a commit that would
\* write a null into one raises IntegrityError.
NotNullOk(row) == row.title # None /\ row.completed # None

\* session.get(TodoItem, todo_id): the row, or None.
session_get(table, todo_id) ==
    IF todo_id \in DOMAIN table THEN Some(table[todo_id]) ELSE None

\* session.exec(select(TodoItem)).all(): the rows in rowid order.
select_all(table) ==
    LET ids == DOMAIN table
        nth(i) == CHOOSE x \in ids : Cardinality({y \in ids : y < x}) = i - 1
    IN  [i \in 1..Cardinality(ids) |-> table[nth(i)]]

\* Mutant: no refresh after the commit expired the object: only what the
\* handler itself set is there, the optional columns are not reloaded.
session_refresh_expired(table, todo_id) ==
    [f \in DOMAIN table[todo_id] |->
        IF f \in {"id", "title", "completed"} THEN table[todo_id][f] ELSE None]

\* session.refresh(obj): the object as the table now holds it.
session_refresh(table, todo_id) == table[todo_id]

\* ------------------------------------------------------------- the schemas

\* TodoItemCreate accepts a body that supplies a non-null title.
TodoItemCreate_accepts(body) == "title" \in DOMAIN body /\ body["title"] # None

\* The TodoItemCreate object of a body: a field not supplied is None.
TodoItemCreate(body) ==
    [f \in CreateFields |-> IF f \in DOMAIN body THEN body[f] ELSE None]

\* Mutant: due_date is not carried over to the table object.
model_validate_drops_due_date(todo_create) ==
    [id          |-> None,
     title       |-> todo_create["title"],
     description |-> todo_create["description"],
     completed   |-> Some(FALSE),
     priority    |-> todo_create["priority"],
     due_date    |-> None]

\* TodoItem.model_validate(todo_create): the creation fields are copied, id
\* is None until the INSERT and completed takes its default, False.
model_validate(todo_create) ==
    [id          |-> None,
     title       |-> todo_create["title"],
     description |-> todo_create["description"],
     completed   |-> Some(FALSE),
     priority    |-> todo_create["priority"],
     due_date    |-> todo_create["due_date"]]

\* Mutant: model_dump() without exclude_unset: every field of the schema,
\* None for the ones the body left out.
model_dump(body) == [f \in Fields |-> IF f \in DOMAIN body THEN body[f] ELSE None]

\* todo_update.model_dump(exclude_unset=True): the keys the body supplied,
\* a supplied null included.
model_dump_exclude_unset(body) == body

\* Mutant: a key is assigned only where the row holds None: a value that
\* was written before is kept.
sqlmodel_update_fill(todo, update_data) ==
    [f \in DOMAIN todo |->
        IF f \in DOMAIN update_data /\ todo[f] = None
        THEN update_data[f] ELSE todo[f]]

\* todo.sqlmodel_update(update_data): each key of update_data is assigned.
sqlmodel_update(todo, update_data) ==
    [f \in DOMAIN todo |->
        IF f \in DOMAIN update_data THEN update_data[f] ELSE todo[f]]

\* ------------------------------------------------------------ the handlers

Response(status, body) == [status |-> status, body |-> body]

\* Each handler yields the table it leaves and its response.  dbError is
\* the store failing the commit (disk, lock): the session is closed without
\* a commit and the table keeps its rows.
Outcome(table, status, body) == [db |-> table, resp |-> Response(status, body)]

\* GET /todos
get_all_todos(table) == Outcome(table, 200, select_all(table))

\* POST /todos
create_todo(table, body, dbError) ==
    IF ~TodoItemCreate_accepts(body) THEN Outcome(table, 422, None)
    ELSE
      LET db_todo == model_validate(TodoItemCreate(body))
          rowid   == NextRowid(table)
          row     == [db_todo EXCEPT !.id = rowid]
          added   == [i \in DOMAIN table \cup {rowid} |->
                        IF i = rowid THEN row ELSE table[i]]
      IN  IF dbError \/ ~NotNullOk(row) THEN Outcome(table, 500, None)
          ELSE Outcome(added, 201, Some(session_refresh(added, rowid)))

\* GET /todos/{todo_id}
get_todo(table, todo_id) ==
    LET todo == session_get(table, todo_id)
    IN  IF todo = None THEN Outcome(table, 404, None)
        ELSE Outcome(table, 200, todo)

\* PUT /todos/{todo_id}
update_todo(table, todo_id, body, dbError) ==
    LET todo == session_get(table, todo_id)
    IN  IF todo = None THEN Outcome(table, 404, None)
        ELSE
          LET update_data == model_dump_exclude_unset(body)
              updated == sqlmodel_update(todo[1], update_data)
              written == [table EXCEPT ![todo_id] = updated]
          IN  IF dbError \/ ~NotNullOk(updated) THEN Outcome(table, 500, None)
              ELSE Outcome(written, 200, Some(session_refresh(written, todo_id)))

\* Mutant: the delete is never committed, and 204 is answered all the same.
delete_todo_uncommitted(table, todo_id, dbError) ==
    IF session_get(table, todo_id) = None THEN Outcome(table, 404, None)
    ELSE IF dbError THEN Outcome(table, 500, None)
    ELSE Outcome(table, 204, None)

\* Mutant: deleting an id that is not there is answered 204.
delete_todo_idempotent(table, todo_id, dbError) ==
    IF dbError /\ todo_id \in DOMAIN table THEN Outcome(table, 500, None)
    ELSE Outcome([i \in DOMAIN table \ {todo_id} |-> table[i]], 204, None)

\* DELETE /todos/{todo_id}
delete_todo(table, todo_id, dbError) ==
    LET todo == session_get(table, todo_id)
    IN  IF todo = None THEN Outcome(table, 404, None)
        ELSE IF dbError THEN Outcome(table, 500, None)
        ELSE Outcome([i \in DOMAIN table \ {todo_id} |-> table[i]], 204, None)

\* LANGUAGES: the target languages of the sidebar.
LANGUAGES ==
    {"English", "Spanish", "French", "German", "Hindi", "Marathi", "Japanese",
     "Chinese (Simplified)", "Korean", "Portuguese"}

\* What generate_content may do with a prompt: raise (None), or answer
\* with some text, which may be empty.
Generated == {None, Some(""), Some("Comprar leche")}

\* The prompt of a translation request.
Prompt(request) ==
    "Translate the following text into " \o request["target_language"]
        \o ": " \o request["text"]

TranslationRequest(text, language) ==
    [text |-> text, target_language |-> language]

\* Mutant: no check of gemini_model: without a model client the call itself
\* raises inside the try, and 500 is answered.
translate_text_unguarded(model, request, generated) ==
    IF model = None \/ generated = None
    THEN [resp |-> Response(500, None),
          upstream |-> IF model = None THEN << >> ELSE << Prompt(request) >>]
    ELSE [resp |-> Response(200, Some([translated_text |-> generated[1]])),
          upstream |-> << Prompt(request) >>]

\* POST /translate: the response and the prompts sent to the model.
translate_text(model, request, generated) ==
    IF model = None THEN [resp |-> Response(503, None), upstream |-> << >>]
    ELSE IF generated = None
         THEN [resp |-> Response(500, None), upstream |-> << Prompt(request) >>]
    ELSE [resp |-> Response(200, Some([translated_text |-> generated[1]])),
          upstream |-> << Prompt(request) >>]

\* ------------------------------------------------------------- the requests

\* dbError: whether the store failed this request's commit.
Request(op, id, body, dbError) ==
    [op |-> op, id |-> id, body |-> body, dbError |-> dbError]

\* The ids a client may put in a path: those the store can hold and one it
\* never assigns.
Ids(limit) == 1..(limit + 1)

\* Lines 15-23 at import: without a credential (unset or empty) the model
\* client is None.  built is whether configure and GenerativeModel returned
\* without raising.
load_gemini_model(api_key, built) ==
    IF ~Truthy(api_key) THEN None
    ELSE IF ~built THEN None
    ELSE Some("gemini-2.5-flash")

ApiKeys == {None, Some(""), Some("key")}

\* The state after startup, for a given environment: the table is created
\* empty and the session has no translation.
Startup(keys) ==
    /\ db = << >>
    /\ GOOGLE_API_KEY \in keys
    /\ \E built \in BOOLEAN :
           gemini_model = load_gemini_model(GOOGLE_API_KEY, built)
    /\ req = Request("GET /", 0, NoBody, FALSE)
    /\ resp = Response(200, None)
    /\ upstream = << >>
    /\ translations = << >>
    /\ target_language = "Spanish"
    /\ ui = [event |-> "start", id |-> 0, cached |-> FALSE, shown |-> << >>]
    /\ http = << >>
    /\ client = "c1"
    /\ issued = {}
    /\ posted = << >>
    /\ prevPut = None

\* The handlers of /todos never read the model client: their specification
\* starts the backend without a credential.
Init == Startup({None})

\* What a request to /todos leaves alone.
ApiFrame ==
    /\ upstream' = << >>
    /\ UNCHANGED << gemini_model, GOOGLE_API_KEY, translations,
                    target_language, ui, http >>

\* The ids POST /todos has returned, and the entity each POST returned while
\* no later request has written or removed it.
Without(f, id) == [i \in DOMAIN f \ {id} |-> f[i]]

With(f, id, v) == [i \in DOMAIN f \cup {id} |-> IF i = id THEN v ELSE f[i]]

Record(op, id, r) ==
    /\ issued' = IF op = "POST" /\ r.resp.status = 201
                 THEN issued \cup {r.resp.body[1].id} ELSE issued
    /\ posted' = IF op = "POST" /\ r.resp.status = 201
                 THEN With(posted, r.resp.body[1].id, r.resp.body[1])
                 ELSE IF (op = "PUT" /\ r.resp.status = 200)
                         \/ (op = "DELETE" /\ r.resp.status = 204)
                 THEN Without(posted, id)
                 ELSE posted

Gets ==
    /\ req' = Request("GET /todos", 0, NoBody, FALSE)
    /\ resp' = get_all_todos(db).resp
    /\ UNCHANGED << db, issued, posted >>
    /\ ApiFrame

Post(bodies, limit) ==
    \E body \in bodies, dbError \in BOOLEAN :
        /\ NextRowid(db) <= limit
        /\ LET r == create_todo(db, body, dbError)
           IN  db' = r.db /\ resp' = r.resp /\ Record("POST", 0, r)
        /\ req' = Request("POST", 0, body, dbError)
        /\ ApiFrame

Get(limit) ==
    \E id \in Ids(limit) :
        /\ req' = Request("GET", id, NoBody, FALSE)
        /\ resp' = get_todo(db, id).resp
        /\ UNCHANGED << db, issued, posted >>
        /\ ApiFrame

Put(bodies, limit) ==
    \E id \in Ids(limit), body \in bodies, dbError \in BOOLEAN :
        /\ LET r == update_todo(db, id, body, dbError)
           IN  db' = r.db /\ resp' = r.resp /\ Record("PUT", id, r)
        /\ req' = Request("PUT", id, body, dbError)
        /\ ApiFrame

Delete(limit) ==
    \E id \in Ids(limit), dbError \in BOOLEAN :
        /\ LET r == delete_todo(db, id, dbError)
           IN  db' = r.db /\ resp' = r.resp /\ Record("DELETE", id, r)
        /\ req' = Request("DELETE", id, NoBody, dbError)
        /\ ApiFrame

\* ---------------------------------------------- the API, request by request

GetTodos == Gets /\ UNCHANGED << client, prevPut >>

PostTodos == Post(CreateBodies, MaxTodos) /\ UNCHANGED << client, prevPut >>

GetTodo == Get(MaxTodos) /\ UNCHANGED << client, prevPut >>

PutTodo == Put(UpdateBodies, MaxTodos) /\ UNCHANGED << client, prevPut >>

DeleteTodo == Delete(MaxTodos) /\ UNCHANGED << client, prevPut >>

Next ==
    \/ GetTodos
    \/ PostTodos
    \/ GetTodo
    \/ PutTodo
    \/ DeleteTodo

Spec == Init /\ [][Next]_vars

\* --------------------------------------------------- properties of /todos

\* The request just served was answered with this status.
Served(op, status) == req.op = op /\ resp.status = status

\* C1: a successful PUT /todos/{id} overwrites exactly the fields its body
\* supplies, with the supplied values, and leaves the id, every other field
\* of the entity and every other entity as they were; the response is the
\* entity as stored.
C1_PartialUpdate ==
    [][(req'.op = "PUT" /\ resp'.status = 200) =>
          /\ req'.id \in DOMAIN db
          /\ DOMAIN db' = DOMAIN db
          /\ db'[req'.id].id = db[req'.id].id
          /\ \A f \in Fields :
                db'[req'.id][f] =
                    IF f \in DOMAIN req'.body THEN req'.body[f]
                    ELSE db[req'.id][f]
          /\ \A i \in DOMAIN db \ {req'.id} : db'[i] = db[i]
          /\ resp'.body = Some(db'[req'.id])]_vars

\* C1 witness: a PUT that supplied only completed succeeded on an entity
\* whose other fields are all set.
C1_Witness ==
    /\ Served("PUT", 200)
    /\ req.body = [completed |-> Some(TRUE)]
    /\ db[req.id] = [AllSet @@ [id |-> req.id] EXCEPT !.completed = Some(TRUE)]

\* C2: the id a POST /todos returns is none of the ids returned before.
C2_IdNeverReused ==
    [][(req'.op = "POST" /\ resp'.status = 201) =>
          resp'.body[1].id \notin issued]_vars

\* C3: a GET /todos/{id} of an entity that nothing has written since its
\* POST returns the entity the POST returned.
C3_PostThenGet ==
    (req.op = "GET" /\ req.id \in DOMAIN posted) =>
        resp = Response(200, Some(posted[req.id]))

\* C3 witness: such a GET was served for an entity created with every
\* optional field supplied.
C3_Witness ==
    /\ req.op = "GET"
    /\ req.id \in DOMAIN posted
    /\ posted[req.id].description # None
    /\ posted[req.id].due_date # None

\* C4: after a DELETE /todos/{id} answered 204, the next GET /todos/{id} is
\* answered 404 and the next GET /todos does not list the id.
C4_DeleteThenGone ==
    [][Served("DELETE", 204) =>
          /\ (req'.op = "GET" /\ req'.id = req.id) => resp'.status = 404
          /\ req'.op = "GET /todos" =>
                \A i \in 1..Len(resp'.body) : resp'.body[i].id # req.id]_vars

\* C4 witness: a DELETE of an id that a POST had returned was answered 204.
C4_Witness == Served("DELETE", 204) /\ req.id \in issued

\* C5: GET, PUT and DELETE of an id the store does not hold are answered
\* 404 and leave the table as it was.
C5_AbsentIsNotFound ==
    [][(req'.op \in {"GET", "PUT", "DELETE"} /\ req'.id \notin DOMAIN db) =>
          resp'.status = 404 /\ db' = db]_vars

\* C5 witness: a PUT with a body was answered 404 for an id that was
\* created and deleted before.
C5_Witness ==
    /\ Served("PUT", 404)
    /\ req.id \in issued
    /\ req.body = AllSet

\* C6: the entity a successful POST /todos returns is stored, carries the
\* body's title and supplied optional fields, is not completed, and has
\* None for every optional field the body left out.
C6_CreateDefaults ==
    Served("POST", 201) =>
        LET e == resp.body[1]
        IN  /\ e.id \in DOMAIN db /\ db[e.id] = e
            /\ e.title = req.body["title"]
            /\ e.completed = Some(FALSE)
            /\ \A f \in CreateFields \ {"title"} :
                  e[f] = IF f \in DOMAIN req.body THEN req.body[f] ELSE None

\* C6 witness: a POST whose body held only a title succeeded.
C6_Witness == Served("POST", 201) /\ req.body = [title |-> Some("Buy milk")]

\* C7 as stated: no stored entity has an empty or null title.
C7_TitleNonEmpty ==
    \A i \in DOMAIN db : db[i].title # None /\ db[i].title # Some("")

\* C7 amended: no stored entity has a null title.
C7_TitleNotNull == \A i \in DOMAIN db : db[i].title # None

\* C7 witness: a PUT that nulls the title of a stored entity was refused by
\* the store's NOT NULL constraint, not by a failing store.
C7_Witness ==
    /\ Served("PUT", 500)
    /\ req.body = [title |-> None]
    /\ ~req.dbError
    /\ req.id \in DOMAIN db

\* ------------------------------------------------------- POST /translate

\* The texts a client of the API sends to POST /translate.
Texts == {"", "Buy milk", "Buy milk (Description: 2 litres)"}

PostTranslate ==
    \E text \in Texts, language \in LANGUAGES, generated \in Generated :
        /\ LET r == translate_text(gemini_model,
                                   TranslationRequest(text, language), generated)
           IN  resp' = r.resp /\ upstream' = r.upstream
        /\ req' = Request("POST /translate", 0,
                          TranslationRequest(text, language), FALSE)
        /\ UNCHANGED << db, gemini_model, GOOGLE_API_KEY, translations,
                        target_language, ui, http, client, issued, posted,
                        prevPut >>

InitTranslate == Startup(ApiKeys)

SpecTranslate == InitTranslate /\ [][PostTranslate]_vars

\* C8: a backend started without a credential answers every POST /translate
\* with 503 and sends nothing to the generative model.
C8_Unconfigured503 ==
    (req.op = "POST /translate" /\ ~Truthy(GOOGLE_API_KEY)) =>
        resp.status = 503 /\ upstream = << >>

\* C8 witness: a POST /translate with a text to translate was served by a
\* backend whose environment had no GOOGLE_API_KEY.
C8_Witness ==
    /\ req.op = "POST /translate"
    /\ GOOGLE_API_KEY = None
    /\ req.body["text"] = "Buy milk"
    /\ req.body["target_language"] = "Hindi"

\* ------------------------------------------------- the Streamlit session

\* The largest rowid the store assigns in the session's specification.
MaxSession == 1

\* The sidebar languages the session selects among (a part of LANGUAGES).
SidebarLanguages == {"Spanish", "French"}

\* The form's inputs: text_input and text_area give a string, the priority
\* selectbox one of its labels, date_input a date or None.
FormTitles == {"", "Buy milk"}

FormDescriptions == {"", "2 litres"}

FormPriorities == {"None", "High"}

FormDueDates == {None, Some("2025-01-01")}

\* get_todos(): the list GET /todos returns.
get_todos(table) == get_all_todos(table).resp.body

\* add_todo_to_backend: the JSON it posts holds the title and each other
\* field whose value is truthy.
add_todo_data(title, description, priority, due_date) ==
    LET given == [title |-> Some(title), description |-> description,
                  priority |-> priority, due_date |-> due_date]
        keys  == {"title"} \cup
                 {f \in {"description", "priority", "due_date"} : Truthy(given[f])}
    IN  [f \in keys |-> given[f]]

\* The string the Translate button sends: the title and an annotation for
\* each other field that is truthy.
text_to_translate(todo) ==
    todo.title[1]
      \o (IF Truthy(todo.description)
          THEN " (Description: " \o todo.description[1] \o ")" ELSE "")
      \o (IF Truthy(todo.priority)
          THEN " (Priority: " \o todo.priority[1] \o ")" ELSE "")
      \o (IF Truthy(todo.due_date)
          THEN " (Due Date: " \o todo.due_date[1] \o ")" ELSE "")

\* translate_text_on_backend: the translated text of a 200, None on any
\* other status.
translate_text_on_backend(response) ==
    IF response.status = 200 THEN Some(response.body[1].translated_text)
    ELSE None

InMap(trans, id, language) ==
    id \in DOMAIN trans /\ language \in DOMAIN trans[id]

\* Mutant: the button looks the translation up first and sends nothing
\* when the session already holds it.
translate_requests_cached(trans, id, language) ==
    IF InMap(trans, id, language) THEN << >> ELSE << "POST /translate" >>

\* The requests the Translate button sends: it calls
\* translate_text_on_backend without looking into the session's map.
translate_requests(trans, id, language) == << "POST /translate" >>

\* What the button stores: a truthy translated text, under the todo's id
\* and the language.
store_translation(trans, id, language, translated_text) ==
    IF ~Truthy(translated_text) THEN trans
    ELSE With(trans, id,
              With(IF id \in DOMAIN trans THEN trans[id] ELSE << >>,
                   language, translated_text[1]))

\* What either Delete button does to the map: the todo's entry goes.
drop_translations(trans, id) ==
    IF id \in DOMAIN trans THEN Without(trans, id) ELSE trans

\* The "Translated (...)" line of each listed todo: the map's text for the
\* todo and the selected language, where there is one.
shown_translations(table, trans, language) ==
    [id \in {i \in DOMAIN table : InMap(trans, i, language)} |->
        trans[id][language]]

Event(name, id, cached) ==
    [event |-> name, id |-> id, cached |-> cached,
     shown |-> shown_translations(db', translations', target_language')]

\* What an event of the session leaves alone.
UiFrame ==
    UNCHANGED << gemini_model, GOOGLE_API_KEY, client, issued, posted, prevPut >>

\* The sidebar's selectbox changes: the script reruns and lists the todos.
SelectLanguage ==
    \E language \in SidebarLanguages :
        /\ target_language' = language
        /\ req' = Request("GET /todos", 0, NoBody, FALSE)
        /\ resp' = get_all_todos(db).resp
        /\ upstream' = << >>
        /\ http' = << "GET /todos" >>
        /\ UNCHANGED << db, translations >>
        /\ ui' = Event("select", 0, FALSE)
        /\ UiFrame

\* "Add To-Do" is submitted: a blank title is refused with a warning,
\* otherwise the todo is posted; then the list is fetched.
SubmitAddForm ==
    \E new_title \in FormTitles, new_description \in FormDescriptions,
       new_priority \in FormPriorities, new_due_date \in FormDueDates,
       dbError \in BOOLEAN :
        LET submitted_priority ==
                IF new_priority # "None" THEN Some(new_priority) ELSE None
            data == add_todo_data(new_title, Some(new_description),
                                  submitted_priority, new_due_date)
            r == create_todo(db, data, dbError)
        IN  /\ NextRowid(db) <= MaxSession
            /\ IF new_title # ""
               THEN /\ db' = r.db
                    /\ req' = Request("POST", 0, data, dbError)
                    /\ resp' = r.resp
                    /\ http' = << "POST", "GET /todos" >>
               ELSE /\ db' = db
                    /\ req' = Request("GET /todos", 0, NoBody, FALSE)
                    /\ resp' = get_all_todos(db).resp
                    /\ http' = << "GET /todos" >>
            /\ upstream' = << >>
            /\ UNCHANGED << translations, target_language >>
            /\ ui' = Event("add", 0, FALSE)
            /\ UiFrame

\* "Mark Completed" of a pending todo: PUT {"completed": true}, then rerun.
ClickMarkCompleted ==
    \E id \in DOMAIN db, dbError \in BOOLEAN :
        LET data == [completed |-> Some(TRUE)]
            r == update_todo(db, id, data, dbError)
        IN  /\ db[id].completed = Some(FALSE)
            /\ db' = r.db
            /\ req' = Request("PUT", id, data, dbError)
            /\ resp' = r.resp
            /\ upstream' = << >>
            /\ http' = << "GET /todos", "PUT", "GET /todos" >>
            /\ UNCHANGED << translations, target_language >>
            /\ ui' = Event("complete", id, FALSE)
            /\ UiFrame

\* "Translate to ..." of a pending todo: the composed text is sent to
\* POST /translate; a truthy answer is stored in the map and the script
\* reruns.
ClickTranslate ==
    \E id \in DOMAIN db, generated \in Generated :
        LET request == TranslationRequest(text_to_translate(db[id]),
                                          target_language)
            sent == translate_requests(translations, id, target_language)
            r == translate_text(gemini_model, request, generated)
            translated_text == translate_text_on_backend(r.resp)
        IN  /\ db[id].completed = Some(FALSE)
            /\ IF sent = << >>
               THEN /\ req' = Request("GET /todos", 0, NoBody, FALSE)
                    /\ resp' = get_all_todos(db).resp
                    /\ upstream' = << >>
                    /\ translations' = translations
                    /\ http' = << "GET /todos" >>
               ELSE /\ req' = Request("POST /translate", 0, request, FALSE)
                    /\ resp' = r.resp
                    /\ upstream' = r.upstream
                    /\ translations' =
                          store_translation(translations, id, target_language,
                                            translated_text)
                    /\ http' = << "GET /todos" >> \o sent \o
                               (IF Truthy(translated_text)
                                THEN << "GET /todos" >> ELSE << >>)
            /\ UNCHANGED << db, target_language >>
            /\ ui' = Event("translate", id,
                           InMap(translations, id, target_language))
            /\ UiFrame

\* "Delete" of a pending or completed todo: DELETE, then the todo's entry
\* of the map is dropped whatever the backend answered, then rerun.
ClickDelete ==
    \E id \in DOMAIN db, dbError \in BOOLEAN :
        LET r == delete_todo(db, id, dbError)
        IN  /\ db' = r.db
            /\ req' = Request("DELETE", id, NoBody, dbError)
            /\ resp' = r.resp
            /\ upstream' = << >>
            /\ translations' = drop_translations(translations, id)
            /\ http' = << "GET /todos", "DELETE", "GET /todos" >>
            /\ UNCHANGED target_language
            /\ ui' = Event("delete", id, FALSE)
            /\ UiFrame

InitUI == Startup({None, Some("key")})

NextUI ==
    \/ SelectLanguage
    \/ SubmitAddForm
    \/ ClickMarkCompleted
    \/ ClickTranslate
    \/ ClickDelete

SpecUI == InitUI /\ [][NextUI]_vars

InSeq(x, seq) == \E i \in 1..Len(seq) : seq[i] = x

\* C9 as stated: a Translate click for an entity and language the session
\* map already holds sends no POST /translate.
C9_CachedTranslateSendsNothing ==
    [][(ui'.event = "translate" /\ ui'.cached) =>
          ~InSeq("POST /translate", http')]_vars

\* C9 amended: every Translate click sends a POST /translate for the
\* selected language, whether or not the map holds the translation, and no
\* other event sends one; an entry of the map stays, with its text, until a
\* Delete click on its todo drops it or a Translate click for the same todo
\* and language replaces the text, and the list shows the entry of the
\* selected language from the map.
C9_MapServesRendersOnly ==
    [][/\ (ui'.event = "translate") =>
             (/\ InSeq("POST /translate", http')
              /\ req'.op = "POST /translate"
              /\ req'.body["target_language"] = target_language)
       /\ (ui'.event # "translate") => ~InSeq("POST /translate", http')
       /\ \A id \in DOMAIN translations :
             \A language \in DOMAIN translations[id] :
                \/ ui'.event = "delete" /\ ui'.id = id
                \/ /\ InMap(translations', id, language)
                   /\ \/ translations'[id][language] = translations[id][language]
                      \/ /\ ui'.event = "translate"
                         /\ ui'.id = id
                         /\ language = target_language
                   /\ (id \in DOMAIN db' /\ language = target_language') =>
                         (/\ id \in DOMAIN ui'.shown
                          /\ ui'.shown[id] = translations'[id][language])
      ]_vars

\* C9 witness: a Translate click was made for an entity and language whose
\* translation the map already held, and the backend received the request.
C9_Witness ==
    /\ ui.event = "translate"
    /\ ui.cached
    /\ req.op = "POST /translate"
    /\ resp.status = 200

\* ------------------------------------------------- two clients, one store

\* The largest rowid the store assigns in the clients' specification.
MaxShared == 1

\* Each client writes one field at a time, set or cleared: a text column
\* that is NOT NULL, the boolean and an optional column.
SharedFields == {"title", "completed", "priority"}

SharedBodies ==
    {Restrict(b, {f}) : b \in {AllSet, AllCleared}, f \in SharedFields}
        \cup {[title |-> None], [completed |-> None]}

SharedCreateBodies == {[title |-> Some("Buy milk")]}

\* The PUT committed last before the current request and the client that
\* sent it, kept while the entity it wrote stays stored.
NextPrevPut ==
    IF req.op = "PUT" /\ resp.status = 200
    THEN Some([client |-> client, id |-> req.id, body |-> req.body])
    ELSE IF req.op = "DELETE" /\ resp.status = 204 /\ prevPut # None
    THEN (IF prevPut[1].id = req.id THEN None ELSE prevPut)
    ELSE prevPut

From(c) == client' = c /\ prevPut' = NextPrevPut

ClientPost(c) == Post(SharedCreateBodies, MaxShared) /\ From(c)

ClientGet(c) == Get(MaxShared) /\ From(c)

ClientPut(c) == Put(SharedBodies, MaxShared) /\ From(c)

ClientDelete(c) == Delete(MaxShared) /\ From(c)

NextClients ==
    \E c \in Clients :
        \/ ClientPost(c)
        \/ ClientGet(c)
        \/ ClientPut(c)
        \/ ClientDelete(c)

SpecClients == Init /\ [][NextClients]_vars

\* A body that puts a null into a column that is NOT NULL.
NullsRequired(body) ==
    \E f \in {"title", "completed"} \cap DOMAIN body : body[f] = None

\* C10: a PUT to an entity that another client's PUT wrote last is never
\* refused for that: it is answered 200 unless the store fails its commit
\* or the body nulls a NOT NULL column, and then the fields it supplies hold
\* its values, whatever the other client had written there, while the other
\* client's other fields stay.
C10_LastWriteWins ==
    (/\ req.op = "PUT"
     /\ prevPut # None
     /\ prevPut[1].id = req.id
     /\ prevPut[1].client # client) =>
        /\ resp.status =
              IF req.dbError \/ NullsRequired(req.body) THEN 500 ELSE 200
        /\ resp.status = 200 =>
              /\ \A f \in DOMAIN req.body : db[req.id][f] = req.body[f]
              /\ \A f \in DOMAIN prevPut[1].body \ DOMAIN req.body :
                    db[req.id][f] = prevPut[1].body[f]

\* C10 witness: a client's PUT succeeded on a field for which the other
\* client's PUT had committed another value just before.
C10_Witness ==
    /\ Served("PUT", 200)
    /\ prevPut # None
    /\ prevPut[1].id = req.id
    /\ prevPut[1].client # client
    /\ DOMAIN prevPut[1].body = DOMAIN req.body
    /\ prevPut[1].body # req.body

====
